---- MODULE Spec2Model ----
(***************************************************************************)
(* Model of the Sensirion SPS30 particulate matter sensor driver           *)
(* (sps30/sps30.c): the command engine sps30_do_cmd over the two-step      *)
(* transfer sps30_write_then_read, the readiness poll sps30_do_meas, the   *)
(* integer float decoder sps30_float_to_int_clamped, and the handlers      *)
(* that run them under state->lock, and the life of the device from        *)
(* sps30_probe to the release of its managed resources.                    *)
(***************************************************************************)
EXTENDS Integers, Sequences, FiniteSets, TLC

(***************************************************************************)
(* Program constants.                                                      *)
(***************************************************************************)
SPS30_CRC8_POLYNOMIAL == 49
SPS30_MAX_PM == 3000

SPS30_START_MEAS == 16
SPS30_STOP_MEAS == 260
SPS30_RESET == 54020
SPS30_READ_DATA_READY_FLAG == 514
SPS30_READ_DATA == 768
SPS30_READ_SERIAL == 53299
SPS30_START_FAN_CLEANING == 22023

CRC8_INIT_VALUE == 255

\* errno values the driver returns (negated in the code)
EIO == 5
ENXIO == 6
ENOMEM == 12
EINVAL == 22
ETIMEDOUT == 110
IIO_VAL_INT_PLUS_MICRO == 2
IRQ_HANDLED == 1

\* content of an automatic array element that was never written
Uninit == -1

(***************************************************************************)
(* Fixed-width integer arithmetic.  Every intermediate value stays inside  *)
(* the 32-bit range: a wider product or sum is computed on 16-bit halves.  *)
(***************************************************************************)
RECURSIVE Pow2(_)
Pow2(n) == IF n = 0 THEN 1 ELSE 2 * Pow2(n - 1)

\* bitwise exclusive or of two values of n bits
RECURSIVE XorBits(_, _, _)
XorBits(a, b, n) ==
    IF n = 0 THEN 0
    ELSE ((a + b) % 2) + 2 * XorBits(a \div 2, b \div 2, n - 1)

\* the two 16-bit halves of an int (two's complement), and back
Halves(x) == [hi |-> (x \div 65536) % 65536, lo |-> x % 65536]

ToInt(h) ==
    IF h.hi >= 32768 THEN (h.hi - 65536) * 65536 + h.lo ELSE h.hi * 65536 + h.lo

\* int * c and int + int, wrapping modulo 2^32 (the kernel is built with
\* -fno-strict-overflow), for 0 <= c < 2^15
MulWrap32(x, c) ==
    LET h == Halves(x)
        l == h.lo * c
    IN  ToInt([hi |-> (h.hi * c + l \div 65536) % 65536, lo |-> l % 65536])

AddWrap32(x, y) ==
    LET a == Halves(x)
        c == Halves(y)
        l == a.lo + c.lo
    IN  ToInt([hi |-> (a.hi + c.hi + l \div 65536) % 65536, lo |-> l % 65536])

\* The builds the shifts are evaluated on.  A shift count outside 0..width-1
\* is undefined in C; the instruction the compiler emits decides the result:
\* x86_64 takes the count modulo the operand width, 32-bit arm takes the low
\* byte of the count and shifts everything out when it is >= the width.
Builds == {"x86_64", "arm"}

BITS_PER_LONG(b) == IF b = "x86_64" THEN 64 ELSE 32

\* the count a shift of a `width`-bit operand by n uses; `width` when every
\* bit is shifted out
ShiftCount(n, width, b) ==
    IF b = "x86_64" THEN n % width
    ELSE IF n % 256 >= width THEN width ELSE n % 256

\* 1 << n for int
Shl32One(n, b) ==
    LET k == ShiftCount(n, 32, b)
    IN  IF k = 32 THEN 0
        ELSE IF k = 31 THEN (-Pow2(30)) - Pow2(30)
        ELSE Pow2(k)

\* int >> n (arithmetic)
Sar32(x, n, b) ==
    LET k == ShiftCount(n, 32, b)
    IN  IF k >= 31 THEN (IF x < 0 THEN -1 ELSE 0) ELSE x \div Pow2(k)

\* number of low one bits of GENMASK(h, 0) == ~0UL >> (BITS_PER_LONG - 1 - h)
GENMASK0_bits(h, b) ==
    LET w == BITS_PER_LONG(b) IN w - ShiftCount(w - 1 - h, w, b)

\* x & GENMASK(h, 0) for an int x with 0 <= x < 2^23
AndMask(x, h, b) ==
    LET n == GENMASK0_bits(h, b) IN IF n >= 23 THEN x ELSE x % Pow2(n)

(***************************************************************************)
(* CRC-8, polynomial 0x31, most significant bit first (crc8_populate_msb   *)
(* and crc8 of the kernel's lib/crc8.c, as the driver calls them).         *)
(***************************************************************************)
RECURSIVE Crc8Shift(_, _)
Crc8Shift(v, n) ==
    IF n = 0 THEN v
    ELSE Crc8Shift(IF v >= 128
                   THEN XorBits((2 * v) % 256, SPS30_CRC8_POLYNOMIAL, 8)
                   ELSE (2 * v) % 256, n - 1)

sps30_crc8_table == [i \in 0..255 |-> Crc8Shift(i, 8)]

\* crc8(sps30_crc8_table, &buf[i], 2, CRC8_INIT_VALUE)
crc8(b0, b1) ==
    LET c0 == sps30_crc8_table[XorBits(CRC8_INIT_VALUE, b0, 8)]
    IN  sps30_crc8_table[XorBits(c0, b1, 8)]

(***************************************************************************)
(* sps30_float_to_int_clamped                                              *)
(***************************************************************************)
\* int val = get_unaligned_be32(fp), as the fields the code takes from it:
\* val & GENMASK(22, 0) and val >> 23 (arithmetic, so negative when byte 0
\* has its top bit set)
be32_mantissa(fp) == (fp[2] % 128) * 65536 + fp[3] * 256 + fp[4]

be32_exp(fp) == (fp[1] % 128) * 2 + fp[2] \div 128 - 256 * (fp[1] \div 128)

sps30_float_to_int_clamped(fp, b) ==
    LET mantissa == be32_mantissa(fp)
        exp0 == be32_exp(fp)
        exp == exp0 - 127
        shift == 23 - exp
        val == Shl32One(exp, b) + Sar32(mantissa, shift, b)
        fraction == AndMask(mantissa, shift - 1, b)
    IN  IF exp0 = 0 /\ mantissa = 0 THEN 0
        ELSE IF exp < 0
        THEN Sar32(Sar32((Pow2(23) + mantissa) * 100, 23, b), -exp, b)
        ELSE IF val >= SPS30_MAX_PM THEN SPS30_MAX_PM * 100
        ELSE AddWrap32(MulWrap32(val, 100), Sar32(fraction * 100, shift, b))

(***************************************************************************)
(* The decoder on its own: an input bit pattern, a build, one application. *)
(***************************************************************************)
VARIABLES fpIn, fpBuild, fpOut, fpDone

fvars == <<fpIn, fpBuild, fpOut, fpDone>>

\* mantissa fields tried with every exponent field
Mantissas == {0, 1, 3899391, 3899392, 4194304, 8388607}

\* the four bytes of sign s, exponent field e, mantissa field m
FloatBytes(s, e, m) ==
    <<s * 128 + e \div 2, (e % 2) * 128 + m \div 65536,
      (m \div 256) % 256, m % 256>>

FloatInit ==
    /\ fpIn \in {FloatBytes(s, e, m) : s \in {0, 1}, e \in 0..255, m \in Mantissas}
    /\ fpBuild \in Builds
    /\ fpOut = 0
    /\ fpDone = FALSE


(***************************************************************************)
(* The bus: what a transfer may return and what a receive may deliver.     *)
(***************************************************************************)
\* errors i2c_master_send / i2c_master_recv return besides a byte count
BusErrnos == {ENXIO, ETIMEDOUT}

\* results of a transfer of `size` bytes: all of them, one less, an error
XferResults(size) == {size, size - 1} \cup {-e : e \in BusErrnos}

\* payload words as the sensor frames them: each followed by its crc
RECURSIVE Framed(_)
Framed(bytes) ==
    IF Len(bytes) < 2 THEN <<>>
    ELSE <<bytes[1], bytes[2], crc8(bytes[1], bytes[2])>>
         \o Framed(SubSeq(bytes, 3, Len(bytes)))

\* frame with the crc byte of triplet j replaced by another value (j = 0: none)
Corrupt(frame, j) ==
    IF j = 0 THEN frame
    ELSE [frame EXCEPT ![3 * j] = (frame[3 * j] + 1) % 256]

\* second byte of the data-ready word
FlagBytes == {0, 1, 2}

\* measurement payloads (PM1, PM2P5, PM4, PM10 as big-endian floats):
\* 1.0 2.0 3.0 4.0 / 0.0 0.5 2999.99.. 3000.0 /
\* 12.34.. 2^31 1.46.. * 2^43 2^-8
Payloads ==
    { FloatBytes(0, 127, 0) \o FloatBytes(0, 128, 0)
        \o FloatBytes(0, 128, 4194304) \o FloatBytes(0, 129, 0),
      FloatBytes(0, 0, 0) \o FloatBytes(0, 126, 0)
        \o FloatBytes(0, 138, 3899391) \o FloatBytes(0, 138, 3899392),
      FloatBytes(0, 130, 4544922) \o FloatBytes(0, 158, 0)
        \o FloatBytes(0, 170, 3899391) \o FloatBytes(0, 119, 0) }

\* frames a receive may deliver: the data-ready word, and the first n
\* channels of a measurement
FlagFrames == {Corrupt(Framed(<<0, f>>), j) : f \in FlagBytes, j \in 0..1}

DataFrames ==
    [n \in 1..4 |-> {Corrupt(Framed(SubSeq(p, 1, 4 * n)), j) :
                        p \in Payloads, j \in 0..(2 * n)}]

RxFrames(c, rxsize) ==
    IF c = SPS30_READ_DATA_READY_FLAG THEN FlagFrames ELSE DataFrames[rxsize \div 6]

(***************************************************************************)
(* sps30_do_cmd                                                            *)
(***************************************************************************)
IsReadCmd(c) ==
    c \in {SPS30_READ_DATA_READY_FLAG, SPS30_READ_DATA, SPS30_READ_SERIAL}

\* u8 buf[SPS30_MAX_READ_SIZE] = { cmd >> 8, cmd } and the bytes sent of it
TxBuf(c) ==
    IF c = SPS30_START_MEAS
    THEN <<c \div 256, c % 256, 3, 0, crc8(3, 0)>>
    ELSE <<c \div 256, c % 256>>

\* one that leaves the checksum bytes out
RxSizeNoCrc(size) == size

\* size += size / 2
RxSize(size) == size + size \div 2

\* one that validates the first triplet only
CrcMismatchFirstOnly(buf, i) ==
    i = 0 /\ crc8(buf[i + 1], buf[i + 2]) # buf[i + 3]

\* crc != buf[i + 2], crc being crc8(sps30_crc8_table, &buf[i], 2, ..)
CrcMismatch(buf, i) == crc8(buf[i + 1], buf[i + 2]) # buf[i + 3]

\* validate received data and strip off crc bytes: the loop from index i
\* (0-based) on, writing to data from position pos (1-based) on
RECURSIVE StripFrom(_, _, _, _, _)
StripFrom(buf, size, i, data, pos) ==
    IF i >= size THEN [ret |-> 0, data |-> data]
    ELSE IF CrcMismatch(buf, i)
    THEN [ret |-> -EIO, data |-> data]
    ELSE StripFrom(buf, size, i + 3,
                   [data EXCEPT ![pos] = buf[i + 1], ![pos + 1] = buf[i + 2]],
                   pos + 2)

\* one that validates the whole frame before it writes anything
StripAllOrNothing(buf, size, data) ==
    LET s == StripFrom(buf, size, 0, data, 1)
    IN  IF s.ret # 0 THEN [ret |-> s.ret, data |-> data] ELSE s

\* the loop of sps30_do_cmd over a received frame
Strip(buf, size, data) == StripFrom(buf, size, 0, data, 1)

\* one that takes a short count for a success
XferFailedOnError(r, size) == r < 0

\* sps30_write_then_read: ret != txsize / ret != rxsize
XferFailed(r, size) == r # size

\* return ret < 0 ? ret : -EIO
XferError(r) == IF r < 0 THEN r ELSE -EIO

(***************************************************************************)
(* kstrtoint(buf, 0, &val): optional sign, base from the prefix, digits,   *)
(* one optional trailing newline.                                          *)
(***************************************************************************)
DigitVal(ch) ==
    CASE ch = "0" -> 0 [] ch = "1" -> 1 [] ch = "2" -> 2 [] ch = "3" -> 3
      [] ch = "4" -> 4 [] ch = "5" -> 5 [] ch = "6" -> 6 [] ch = "7" -> 7
      [] ch = "8" -> 8 [] ch = "9" -> 9 [] ch = "a" -> 10 [] OTHER -> 99

RECURSIVE ParseDigits(_, _, _)
ParseDigits(chars, base, acc) ==
    IF chars = <<>> \/ chars = <<"\n">> THEN [ok |-> TRUE, val |-> acc]
    ELSE IF DigitVal(chars[1]) >= base THEN [ok |-> FALSE, val |-> 0]
    ELSE ParseDigits(Tail(chars), base, acc * base + DigitVal(chars[1]))

kstrtoint(chars) ==
    LET neg == chars # <<>> /\ chars[1] = "-"
        s1 == IF chars # <<>> /\ chars[1] \in {"-", "+"} THEN Tail(chars) ELSE chars
        hex == Len(s1) >= 3 /\ s1[1] = "0" /\ s1[2] = "x" /\ DigitVal(s1[3]) < 16
        oct == ~hex /\ Len(s1) >= 1 /\ s1[1] = "0"
        base == IF hex THEN 16 ELSE IF oct THEN 8 ELSE 10
        s2 == IF hex THEN SubSeq(s1, 3, Len(s1)) ELSE s1
        r == ParseDigits(s2, base, 0)
    IN  IF s2 = <<>> \/ s2 = <<"\n">> \/ ~r.ok THEN [ok |-> FALSE, val |-> 0]
        ELSE [ok |-> TRUE, val |-> IF neg THEN -r.val ELSE r.val]

\* texts the conversion is tried on
CleaningTexts ==
    { <<"1">>, <<"1", "\n">>, <<"+", "1">>, <<"0", "1">>,
      <<"0">>, <<"2">>, <<"-", "1">>, <<"1", "1">>, <<"x">>, <<"1", "x">>, <<>> }

\* texts the callers write to the start_cleaning attribute
CleaningInputs == { <<"1">>, <<"1", "\n">>, <<"0">>, <<"1", "x">> }

(***************************************************************************)
(* The handlers and their callers.                                         *)
(***************************************************************************)
NumCallers == 2

Callers == 1..NumCallers

NoOne == 0

VARIABLES
    lock,       \* state->lock: its holder, or NoOne
    pc,         \* each caller's position
    fn,         \* the handler each caller runs, with its arguments
    cmd,        \* the command of the sps30_do_cmd in progress
    tries,      \* sps30_do_meas: tries
    ret,        \* ret of the handler
    tmp,        \* sps30_do_meas: u8 tmp[16]
    data,       \* the handler's data[]
    trace,      \* the transfers on the bus since it was last quiet
    rx,         \* the frame the last completed receive delivered
    sawReady,   \* a poll of this sps30_do_meas read flag byte 1
    signalled,  \* the sleep just ended was cut short by a signal
    sleeps      \* calls of msleep_interruptible by this sps30_do_meas

vars == <<lock, pc, fn, cmd, tries, ret, tmp, data, trace, rx,
          sawReady, signalled, sleeps>>

VARIABLES
    dev,        \* where the device is between sps30_probe and its release
    devret,     \* ret of sps30_probe
    devtrace,   \* the transfers of sps30_probe and sps30_stop_meas
    devbuf      \* sps30_probe: u8 buf[32]

avars == <<dev, devret, devtrace, devbuf>>

NoFn == [name |-> "none", size |-> 0, buf |-> <<>>]

Fresh(n) == [i \in 1..n |-> Uninit]

DriverInit ==
    /\ lock = NoOne
    /\ pc = [t \in Callers |-> "idle"]
    /\ fn = [t \in Callers |-> NoFn]
    /\ cmd = [t \in Callers |-> 0]
    /\ tries = [t \in Callers |-> 0]
    /\ ret = [t \in Callers |-> 0]
    /\ tmp = [t \in Callers |-> <<>>]
    /\ data = [t \in Callers |-> <<>>]
    /\ trace = <<>>
    /\ rx = [t \in Callers |-> <<>>]
    /\ sawReady = [t \in Callers |-> FALSE]
    /\ signalled = [t \in Callers |-> FALSE]
    /\ sleeps = [t \in Callers |-> 0]


\* C integer division and remainder (truncating towards zero)
CDiv(x, d) == IF x >= 0 THEN x \div d ELSE -((-x) \div d)
CMod(x, d) == x - d * CDiv(x, d)

\* the locals of caller t after a step
Locals(t, p, c, tr, r, tm, d, sr) ==
    /\ pc' = [pc EXCEPT ![t] = p]
    /\ cmd' = [cmd EXCEPT ![t] = c]
    /\ tries' = [tries EXCEPT ![t] = tr]
    /\ ret' = [ret EXCEPT ![t] = r]
    /\ tmp' = [tmp EXCEPT ![t] = tm]
    /\ data' = [data EXCEPT ![t] = d]
    /\ sawReady' = [sawReady EXCEPT ![t] = sr]

\* the device is registered (devm_iio_device_register has returned 0 and
\* the unregistration has not begun): its handlers can be called
DeviceRegistered == dev = "registered"

IsMeas(f) == f.name \in {"sps30_read_raw", "sps30_trigger_handler"}

\* sps30_read_raw, IIO_CHAN_INFO_PROCESSED of an IIO_MASSCONCENTRATION
\* channel: chan->address is PM1..PM10, sps30_do_meas reads address + 1 values
CallReadRaw(t) ==
    /\ pc[t] = "idle"
    /\ DeviceRegistered
    /\ \E address \in 0..3 :
         fn' = [fn EXCEPT ![t] = [name |-> "sps30_read_raw",
                                  size |-> address + 1, buf |-> <<>>]]
    /\ pc' = [pc EXCEPT ![t] = "lock"]
    /\ data' = [data EXCEPT ![t] = Fresh(4)]
    /\ UNCHANGED <<lock, cmd, tries, ret, tmp, trace, rx, sawReady,
                   signalled, sleeps, fvars, avars>>

\* sps30_trigger_handler: s32 data[4 + 2], sps30_do_meas(state, data, 4)
CallTriggerHandler(t) ==
    /\ pc[t] = "idle"
    /\ DeviceRegistered
    /\ fn' = [fn EXCEPT ![t] = [name |-> "sps30_trigger_handler",
                                size |-> 4, buf |-> <<>>]]
    /\ pc' = [pc EXCEPT ![t] = "lock"]
    /\ data' = [data EXCEPT ![t] = Fresh(6)]
    /\ UNCHANGED <<lock, cmd, tries, ret, tmp, trace, rx, sawReady,
                   signalled, sleeps, fvars, avars>>

\* one that takes every integer
RejectsOnlyUnparsed(buf) == ~kstrtoint(buf).ok

\* if (kstrtoint(buf, 0, &val) || val != 1)
CleaningRejected(buf) == ~kstrtoint(buf).ok \/ kstrtoint(buf).val # 1

\* start_cleaning_store up to return -EINVAL or mutex_lock
CallStartCleaning(t) ==
    /\ pc[t] = "idle"
    /\ DeviceRegistered
    /\ \E buf \in CleaningInputs :
         /\ fn' = [fn EXCEPT ![t] = [name |-> "start_cleaning_store",
                                     size |-> 0, buf |-> buf]]
         /\ pc' = [pc EXCEPT ![t] = IF CleaningRejected(buf)
                                    THEN "einval" ELSE "lock"]
         /\ ret' = [ret EXCEPT ![t] = IF CleaningRejected(buf)
                                      THEN -EINVAL ELSE @]
    /\ UNCHANGED <<lock, cmd, tries, tmp, data, trace, rx, sawReady,
                   signalled, sleeps, fvars, avars>>

\* a lock that lets everyone in
LockNeverWaits(t) == TRUE

\* mutex_lock(&state->lock): waits until the lock is free
LockFree(t) == lock = NoOne

\* one try more
SixTries == 5 + 1

\* int i, ret, tries = 5
InitialTries == 5

\* mutex_lock, then the entry of sps30_do_meas (tries = 5) or of
\* sps30_do_cmd(state, SPS30_START_FAN_CLEANING, NULL, 0)
MutexLock(t) ==
    /\ pc[t] = "lock"
    /\ LockFree(t)
    /\ lock' = t
    /\ IF IsMeas(fn[t])
       THEN Locals(t, "while", 0, InitialTries, 0, Fresh(16), data[t], FALSE)
       ELSE Locals(t, "send", SPS30_START_FAN_CLEANING, 0, 0, tmp[t], data[t], FALSE)
    /\ UNCHANGED <<fn, trace, rx, signalled, sleeps, fvars, avars>>

\* if (!tries) return -ETIMEDOUT;
OutOfTries(tr) == tr = 0

\* sps30_do_meas after the loop, tries being tr and tmp being tm
AfterLoop(t, tr, tm, sr) ==
    IF OutOfTries(tr)
    THEN Locals(t, "unlock", 0, tr, -ETIMEDOUT, tm, data[t], sr)
    ELSE Locals(t, "send", SPS30_READ_DATA, tr, ret[t], tm, data[t], sr)

\* while (tries--)
WhileTries(t) ==
    /\ pc[t] = "while"
    /\ IF tries[t] # 0
       THEN Locals(t, "send", SPS30_READ_DATA_READY_FLAG, tries[t] - 1, ret[t],
                   tmp[t], data[t], sawReady[t])
       ELSE AfterLoop(t, tries[t] - 1, tmp[t], sawReady[t])
    /\ UNCHANGED <<lock, fn, trace, rx, signalled, sleeps, fvars, avars>>

\* if (tmp[1] == 1) break;
ReadyFlagSet(tm) == tm[2] = 1

\* data[i] = sps30_float_to_int_clamped(&tmp[4 * i]) for i < size
DecodeChannels(d, tm, size, b) ==
    [i \in 1..Len(d) |->
        IF i <= size
        THEN sps30_float_to_int_clamped(SubSeq(tm, 4 * i - 3, 4 * i), b)
        ELSE d[i]]

\* the caller of sps30_do_cmd once it returned r, having left tm in its data
AfterCmd(t, r, tm) ==
    IF ~IsMeas(fn[t])
    THEN Locals(t, "unlock", 0, tries[t], r, tmp[t], data[t], FALSE)
    ELSE IF cmd[t] = SPS30_READ_DATA_READY_FLAG
    THEN IF r # 0
         THEN Locals(t, "unlock", 0, tries[t], -EIO, tm, data[t], sawReady[t])
         ELSE IF ReadyFlagSet(tm)
         THEN AfterLoop(t, tries[t], tm, TRUE)
         ELSE Locals(t, "sleep", 0, tries[t], r, tm, data[t], sawReady[t])
    ELSE IF r # 0
         THEN Locals(t, "unlock", 0, tries[t], r, tm, data[t], sawReady[t])
         ELSE \E b \in Builds :
                Locals(t, "unlock", 0, tries[t], 0, tm,
                       DecodeChannels(data[t], tm, fn[t].size, b), sawReady[t])

\* the size argument of the sps30_do_cmd in progress
CmdSize(t) ==
    IF cmd[t] = SPS30_READ_DATA_READY_FLAG THEN 2
    ELSE IF cmd[t] = SPS30_READ_DATA THEN 4 * fn[t].size
    ELSE 0

\* a transfer: who made it, for which command, the bytes sent, the length
\* asked for and the result
Transfer(t, o, c, n, r) ==
    [caller |-> t, op |-> o, cmd |-> c,
     tx |-> IF o = "send" THEN TxBuf(c) ELSE <<>>, len |-> n, res |-> r]

Event(t, o, n, r) == Transfer(t, o, cmd[t], n, r)

\* sps30_write_then_read: i2c_master_send and what follows a failure or,
\* with no rxbuf, a success
I2cMasterSend(t) ==
    /\ pc[t] = "send"
    /\ LET txsize == Len(TxBuf(cmd[t])) IN
       \E r \in XferResults(txsize) :
         /\ trace' = Append(trace, Event(t, "send", txsize, r))
         /\ IF XferFailed(r, txsize) THEN AfterCmd(t, XferError(r), tmp[t])
            ELSE IF ~IsReadCmd(cmd[t]) THEN AfterCmd(t, 0, tmp[t])
            ELSE /\ pc' = [pc EXCEPT ![t] = "recv"]
                 /\ UNCHANGED <<cmd, tries, ret, tmp, data, sawReady>>
    /\ rx' = [rx EXCEPT ![t] = <<>>]
    /\ signalled' = [signalled EXCEPT ![t] = FALSE]
    /\ UNCHANGED <<lock, fn, sleeps, fvars, avars>>

\* sps30_write_then_read: i2c_master_recv, then the rest of sps30_do_cmd
I2cMasterRecv(t) ==
    /\ pc[t] = "recv"
    /\ LET rxsize == RxSize(CmdSize(t)) IN
       \E r \in XferResults(rxsize) :
         /\ trace' = Append(trace, Event(t, "recv", rxsize, r))
         /\ IF XferFailed(r, rxsize)
            THEN /\ AfterCmd(t, XferError(r), tmp[t])
                 /\ rx' = rx
            ELSE \E buf \in RxFrames(cmd[t], rxsize) :
                   LET s == Strip(buf, rxsize, tmp[t])
                   IN  /\ AfterCmd(t, s.ret, s.data)
                       /\ rx' = [rx EXCEPT ![t] = buf]
    /\ UNCHANGED <<lock, fn, signalled, sleeps, fvars, avars>>

\* msleep_interruptible(300): its result is not looked at
Sleep(t) ==
    /\ pc[t] = "sleep"
    /\ \E interrupted \in BOOLEAN :
         signalled' = [signalled EXCEPT ![t] = interrupted]
    /\ sleeps' = [sleeps EXCEPT ![t] = @ + 1]
    /\ pc' = [pc EXCEPT ![t] = "while"]
    /\ UNCHANGED <<lock, fn, cmd, tries, ret, tmp, data, trace, rx,
                   sawReady, fvars, avars>>

\* sps30_read_raw: *val and *val2 of data[chan->address]
ReadRawVal(f, d) == CDiv(d[f.size], 100)
ReadRawVal2(f, d) == CMod(d[f.size], 100) * 10000

\* what the handler returns after mutex_unlock
HandlerResult(f, r) ==
    IF f.name = "sps30_read_raw"
    THEN IF r # 0 THEN r ELSE IIO_VAL_INT_PLUS_MICRO
    ELSE IF f.name = "sps30_trigger_handler" THEN IRQ_HANDLED
    ELSE IF r # 0 THEN r ELSE Len(f.buf)

\* one that returns early on an error, the lock still held
LockKeptOnError(t) == IF lock = t /\ ret[t] = 0 THEN NoOne ELSE lock

\* state->lock after mutex_unlock by caller t
LockAfterUnlock(t) == IF lock = t THEN NoOne ELSE lock

\* mutex_unlock(&state->lock) and the rest of the handler, which returns
\* HandlerResult; the bus record starts afresh when no other caller has a
\* transfer in it
MutexUnlock(t) ==
    /\ pc[t] = "unlock"
    /\ lock' = LockAfterUnlock(t)
    /\ fn' = [fn EXCEPT ![t] = NoFn]
    /\ trace' = IF \A i \in 1..Len(trace) : trace[i].caller = t
                THEN <<>> ELSE trace
    /\ Locals(t, "idle", 0, 0, 0, <<>>, <<>>, FALSE)
    /\ rx' = [rx EXCEPT ![t] = <<>>]
    /\ signalled' = [signalled EXCEPT ![t] = FALSE]
    /\ sleeps' = [sleeps EXCEPT ![t] = 0]
    /\ UNCHANGED <<fvars, avars>>

\* start_cleaning_store: return -EINVAL
ReturnEinval(t) ==
    /\ pc[t] = "einval"
    /\ pc' = [pc EXCEPT ![t] = "idle"]
    /\ fn' = [fn EXCEPT ![t] = NoFn]
    /\ ret' = [ret EXCEPT ![t] = 0]
    /\ UNCHANGED <<lock, cmd, tries, tmp, data, trace, rx, sawReady,
                   signalled, sleeps, fvars, avars>>

(***************************************************************************)
(* The life of the device: sps30_probe, the managed resources it leaves    *)
(* behind and their release, sps30_stop_meas among them.                   *)
(***************************************************************************)
\* the serial number the sensor answers READ_SERIAL with: text and NULs
SerialNumber ==
    <<48, 49, 50, 51, 52, 53, 54, 55, 56, 57, 65, 66, 67, 68, 69, 70>>
        \o [i \in 1..16 |-> 0]

\* frames the receive of READ_SERIAL may deliver
SerialFrames == {Corrupt(Framed(SerialNumber), j) : j \in {0, 1, 9, 16}}

DevTransfer(o, c, n, r) == Transfer(NoOne, o, c, n, r)

\* the record of a sps30_probe that returned 0
AttachedTrace ==
    << DevTransfer("send", SPS30_RESET, 2, 2),
       DevTransfer("send", SPS30_STOP_MEAS, 2, 2),
       DevTransfer("send", SPS30_READ_SERIAL, 2, 2),
       DevTransfer("recv", SPS30_READ_SERIAL, 48, 48),
       DevTransfer("send", SPS30_START_MEAS, 5, 5) >>

\* the device after a sps30_probe that returned 0
DeviceAttached ==
    /\ dev = "registered"
    /\ devret = 0
    /\ devtrace = AttachedTrace
    /\ devbuf = SerialNumber

\* the device when sps30_probe is entered, up to mutex_init and
\* crc8_populate_msb
DeviceProbing ==
    /\ dev = "reset"
    /\ devret = 0
    /\ devtrace = <<>>
    /\ devbuf = Fresh(32)

\* one that never gives up
ProbeNeverAborts(r) == FALSE

\* if (ret) { dev_err(..); return ret; }
ProbeAborts(r) == r # 0

\* sps30_probe after a sps30_do_cmd whose result it tests returned r
ProbeAfterCmd(r, next) ==
    IF ProbeAborts(r)
    THEN dev' = "gone" /\ devret' = r
    ELSE dev' = next /\ devret' = 0

\* a sps30_do_cmd of sps30_probe or sps30_stop_meas without a reply: the
\* send, and the result of sps30_do_cmd
DevSend(c, r) ==
    devtrace' = Append(devtrace, DevTransfer("send", c, Len(TxBuf(c)), r))

DevCmdResult(c, r) == IF XferFailed(r, Len(TxBuf(c))) THEN XferError(r) ELSE 0

\* ret = sps30_do_cmd(state, SPS30_RESET, NULL, 0)
ProbeReset ==
    /\ dev = "reset"
    /\ \E r \in XferResults(Len(TxBuf(SPS30_RESET))) :
         /\ DevSend(SPS30_RESET, r)
         /\ ProbeAfterCmd(DevCmdResult(SPS30_RESET, r), "msleep")
    /\ UNCHANGED <<devbuf, vars, fvars>>

\* msleep(300)
ProbeMsleep ==
    /\ dev = "msleep"
    /\ dev' = "nudge"
    /\ UNCHANGED <<devret, devtrace, devbuf, vars, fvars>>

\* sps30_do_cmd(state, SPS30_STOP_MEAS, NULL, 0), its result dropped
ProbeNudge ==
    /\ dev = "nudge"
    /\ \E r \in XferResults(Len(TxBuf(SPS30_STOP_MEAS))) :
         DevSend(SPS30_STOP_MEAS, r)
    /\ dev' = "serial"
    /\ UNCHANGED <<devret, devbuf, vars, fvars>>

\* ret = sps30_do_cmd(state, SPS30_READ_SERIAL, buf, sizeof(buf)): the send
ProbeReadSerialSend ==
    /\ dev = "serial"
    /\ \E r \in XferResults(Len(TxBuf(SPS30_READ_SERIAL))) :
         /\ DevSend(SPS30_READ_SERIAL, r)
         /\ ProbeAfterCmd(DevCmdResult(SPS30_READ_SERIAL, r), "serial_recv")
    /\ UNCHANGED <<devbuf, vars, fvars>>

\* sizeof(buf) of sps30_probe
SerialSize == Len(SerialNumber)

\* the receive of READ_SERIAL and the rest of sps30_do_cmd
ProbeReadSerialRecv ==
    /\ dev = "serial_recv"
    /\ LET rxsize == RxSize(SerialSize) IN
       \E r \in XferResults(rxsize) :
         /\ devtrace' = Append(devtrace,
                               DevTransfer("recv", SPS30_READ_SERIAL, rxsize, r))
         /\ IF XferFailed(r, rxsize)
            THEN /\ ProbeAfterCmd(XferError(r), "start")
                 /\ devbuf' = devbuf
            ELSE \E buf \in SerialFrames :
                   LET s == Strip(buf, rxsize, devbuf)
                   IN  /\ ProbeAfterCmd(s.ret, "start")
                       /\ devbuf' = s.data
    /\ UNCHANGED <<vars, fvars>>

\* ret = sps30_do_cmd(state, SPS30_START_MEAS, NULL, 0)
ProbeStartMeas ==
    /\ dev = "start"
    /\ \E r \in XferResults(Len(TxBuf(SPS30_START_MEAS))) :
         /\ DevSend(SPS30_START_MEAS, r)
         /\ ProbeAfterCmd(DevCmdResult(SPS30_START_MEAS, r), "add_action")
    /\ UNCHANGED <<devbuf, vars, fvars>>

\* results of the devm_ calls of sps30_probe
DevmResults == {0, -ENOMEM}

\* devm_add_action: when it fails the action is not run
AddActionOnly == "gone"

\* devm_add_action_or_reset: when it fails the action is run at once
OnAddActionFailure == "stop_meas"

\* ret = devm_add_action_or_reset(&client->dev, sps30_stop_meas, state)
DevmAddActionOrReset ==
    /\ dev = "add_action"
    /\ \E r \in DevmResults :
         /\ dev' = IF r # 0 THEN OnAddActionFailure ELSE "buffer_setup"
         /\ devret' = r
    /\ UNCHANGED <<devtrace, devbuf, vars, fvars>>

\* ret = devm_iio_triggered_buffer_setup(..): when sps30_probe returns an
\* error the managed resources are released, the action run
DevmIioTriggeredBufferSetup ==
    /\ dev = "buffer_setup"
    /\ \E r \in DevmResults :
         /\ dev' = IF r # 0 THEN "stop_meas" ELSE "register"
         /\ devret' = r
    /\ UNCHANGED <<devtrace, devbuf, vars, fvars>>

\* return devm_iio_device_register(&client->dev, indio_dev)
DevmIioDeviceRegister ==
    /\ dev = "register"
    /\ \E r \in DevmResults :
         /\ dev' = IF r # 0 THEN "stop_meas" ELSE "registered"
         /\ devret' = r
    /\ UNCHANGED <<devtrace, devbuf, vars, fvars>>

\* the driver is unbound: the managed resources are released in the
\* reverse of the order they were added in, the registration first
Unbind ==
    /\ dev = "registered"
    /\ dev' = "unregister"
    /\ UNCHANGED <<devret, devtrace, devbuf, vars, fvars>>

\* the release of devm_iio_device_register and of
\* devm_iio_triggered_buffer_setup: returns when no handler is running
IioDeviceUnregister ==
    /\ dev = "unregister"
    /\ \A t \in Callers : pc[t] = "idle"
    /\ dev' = "stop_meas"
    /\ UNCHANGED <<devret, devtrace, devbuf, vars, fvars>>

\* sps30_stop_meas: sps30_do_cmd(state, SPS30_STOP_MEAS, NULL, 0), its
\* result dropped; nothing is left to release after it
sps30_stop_meas ==
    /\ dev = "stop_meas"
    /\ \E r \in XferResults(Len(TxBuf(SPS30_STOP_MEAS))) :
         DevSend(SPS30_STOP_MEAS, r)
    /\ dev' = "gone"
    /\ UNCHANGED <<devret, devbuf, vars, fvars>>

Next ==
    \/ \E t \in Callers : CallReadRaw(t)
    \/ \E t \in Callers : CallTriggerHandler(t)
    \/ \E t \in Callers : CallStartCleaning(t)
    \/ \E t \in Callers : MutexLock(t)
    \/ \E t \in Callers : WhileTries(t)
    \/ \E t \in Callers : I2cMasterSend(t)
    \/ \E t \in Callers : I2cMasterRecv(t)
    \/ \E t \in Callers : Sleep(t)
    \/ \E t \in Callers : MutexUnlock(t)
    \/ \E t \in Callers : ReturnEinval(t)

\* the decoder's variables while the handlers run
FloatParked ==
    /\ fpIn = <<0, 0, 0, 0>>
    /\ fpBuild = "x86_64"
    /\ fpOut = 0
    /\ fpDone = TRUE

Init == DriverInit /\ FloatParked /\ DeviceAttached

allvars == <<vars, fvars, avars>>

Spec == Init /\ [][Next]_allvars

\* one application of the decoder to the input
Decode ==
    /\ ~fpDone
    /\ fpOut' = sps30_float_to_int_clamped(fpIn, fpBuild)
    /\ fpDone' = TRUE
    /\ UNCHANGED <<fpIn, fpBuild, vars, avars>>

FloatNext == Decode

InitFloat == FloatInit /\ DriverInit /\ DeviceAttached

SpecFloat == InitFloat /\ [][FloatNext]_allvars

\* a step of a handler that caller t has entered
Step(t) ==
    \/ MutexLock(t)
    \/ WhileTries(t)
    \/ I2cMasterSend(t)
    \/ I2cMasterRecv(t)
    \/ Sleep(t)
    \/ MutexUnlock(t)
    \/ ReturnEinval(t)

\* a caller inside a handler keeps running (the bus calls and the sleep
\* return), and mutex_lock lets no waiter starve: a waiter that finds the
\* lock free again and again gets it
Fairness == \A t \in Callers : SF_allvars(Step(t))

SpecLive == Spec /\ Fairness

\* the contexts that use the device between its registration and its
\* unregistration
Users == {1}

NextAttach ==
    \/ ProbeReset
    \/ ProbeMsleep
    \/ ProbeNudge
    \/ ProbeReadSerialSend
    \/ ProbeReadSerialRecv
    \/ ProbeStartMeas
    \/ DevmAddActionOrReset
    \/ DevmIioTriggeredBufferSetup
    \/ DevmIioDeviceRegister
    \/ Unbind
    \/ IioDeviceUnregister
    \/ sps30_stop_meas
    \/ \E t \in Users : CallReadRaw(t)
    \/ \E t \in Users : CallTriggerHandler(t)
    \/ \E t \in Users : CallStartCleaning(t)
    \/ \E t \in Users : MutexLock(t)
    \/ \E t \in Users : WhileTries(t)
    \/ \E t \in Users : I2cMasterSend(t)
    \/ \E t \in Users : I2cMasterRecv(t)
    \/ \E t \in Users : Sleep(t)
    \/ \E t \in Users : MutexUnlock(t)
    \/ \E t \in Users : ReturnEinval(t)

InitAttach == DriverInit /\ FloatParked /\ DeviceProbing

SpecAttach == InitAttach /\ [][NextAttach]_allvars

\* the steps of the driver and of the release of its resources (all but the
\* decision to unbind) are taken when they can be
FairAttach ==
    /\ WF_allvars(ProbeReset \/ ProbeMsleep \/ ProbeNudge
                    \/ ProbeReadSerialSend \/ ProbeReadSerialRecv
                    \/ ProbeStartMeas \/ DevmAddActionOrReset
                    \/ DevmIioTriggeredBufferSetup \/ DevmIioDeviceRegister
                    \/ IioDeviceUnregister \/ sps30_stop_meas)
    /\ \A t \in Users :
          WF_allvars(MutexLock(t) \/ WhileTries(t) \/ I2cMasterSend(t)
                       \/ I2cMasterRecv(t) \/ Sleep(t) \/ MutexUnlock(t)
                       \/ ReturnEinval(t))

SpecAttachLive == SpecAttach /\ FairAttach


(***************************************************************************)
(* Properties.                                                             *)
(***************************************************************************)
\* the positions of caller t's transfers in the bus record
OwnIdx(t) == {i \in 1..Len(trace) : trace[i].caller = t}

\* commands c caller t has sent
Sends(t, c) ==
    Cardinality({i \in OwnIdx(t) : trace[i].op = "send" /\ trace[i].cmd = c})

\* every transfer of caller t moved all its bytes
AllTransfersOk(t) == \A i \in OwnIdx(t) : trace[i].res = trace[i].len

\* triplet j of frame f has a bad crc
BadAt(f, j) == crc8(f[3 * j - 2], f[3 * j - 1]) # f[3 * j]

\* a triplet of the frame whose third byte is not the crc of the first two
BadTriplets(f) == {j \in 1..(Len(f) \div 3) : BadAt(f, j)}

\* sps30_do_meas of caller t has returned (ret[t]) and the lock is still held
MeasReturned(t) == pc[t] = "unlock" /\ IsMeas(fn[t])

\* no channel value was written to the handler's data[]
DataUntouched(t) == \A i \in 1..Len(data[t]) : data[t][i] = Uninit

\* C1: when every data-ready poll moves all its bytes, has a valid checksum
\* and a flag byte other than 1, sps30_do_meas sends exactly 5
\* READ_DATA_READY_FLAG commands and returns -ETIMEDOUT.
C1_TimeoutAfterFivePolls ==
    \A t \in Callers :
        ( /\ MeasReturned(t)
          /\ ~sawReady[t]
          /\ \A i \in OwnIdx(t) :
                trace[i].cmd = SPS30_READ_DATA_READY_FLAG
                    => trace[i].res = trace[i].len
          /\ ~(Len(rx[t]) = 3 /\ BadTriplets(rx[t]) # {}) )
        => ( /\ Sends(t, SPS30_READ_DATA_READY_FLAG) = 5
             /\ ret[t] = -ETIMEDOUT )

\* C2: when a poll reads flag byte 1 and every transfer and checksum of the
\* call is good, sps30_do_meas sends READ_DATA once and returns 0 with the
\* requested channels decoded, whichever of the 5 polls it was.
C2_ReadyPollReadsData ==
    \A t \in Callers :
        ( /\ MeasReturned(t)
          /\ sawReady[t]
          /\ AllTransfersOk(t)
          /\ BadTriplets(rx[t]) = {} )
        => ( /\ ret[t] = 0
             /\ Sends(t, SPS30_READ_DATA) = 1
             /\ \A i \in 1..fn[t].size : data[t][i] # Uninit )

\* C3: a READ_DATA command is on the bus only if a poll of the same
\* sps30_do_meas call read flag byte 1.
C3_ReadDataOnlyWhenReady ==
    \A i \in 1..Len(trace) :
        trace[i].cmd = SPS30_READ_DATA => sawReady[trace[i].caller]

\* C4: the transfers of one caller's sequence are never separated by a
\* transfer of another caller, and every receive directly follows the send
\* of its own command.
C4_SequencesNotInterleaved ==
    /\ \A i, j, k \in 1..Len(trace) :
          (i < j /\ j < k /\ trace[i].caller = trace[k].caller)
              => trace[j].caller = trace[i].caller
    /\ \A j \in 1..Len(trace) :
          trace[j].op = "recv"
              => /\ j > 1
                 /\ trace[j - 1].op = "send"
                 /\ trace[j - 1].caller = trace[j].caller
                 /\ trace[j - 1].cmd = trace[j].cmd

\* C4 witness: one caller is between its poll and its data read, with
\* transfers on the bus, while another caller waits for the lock to send
\* commands of its own.
C4_Witness ==
    \E t, u \in Callers :
        /\ t # u
        /\ pc[t] = "recv" /\ cmd[t] = SPS30_READ_DATA /\ fn[t].name = "sps30_read_raw"
        /\ pc[u] = "lock" /\ fn[u].name \in {"start_cleaning_store", "sps30_trigger_handler"}
        /\ Len(trace) >= 3

\* C5: once a sleep between two polls was cut short by a signal,
\* sps30_do_meas has returned -EIO (it neither polls again nor reads data).
C5_SignalAborts ==
    \A t \in Callers :
        signalled[t] => (pc[t] = "unlock" /\ ret[t] = -EIO)

\* C6: after a receive delivered a frame with a triplet whose third byte is
\* not the crc of its first two, sps30_do_meas has returned -EIO and no
\* channel value was written to the caller's data[].
C6_BadFrameFailsMeas ==
    \A t \in Callers :
        BadTriplets(rx[t]) # {}
            => (MeasReturned(t) /\ ret[t] = -EIO /\ DataUntouched(t))

\* C6 witness: a measurement frame whose first bad triplet is not the first
\* triplet was received, and sps30_do_meas has returned.
C6_Witness ==
    \E t \in Callers :
        /\ MeasReturned(t)
        /\ Len(rx[t]) > 3
        /\ BadTriplets(rx[t]) # {}
        /\ 1 \notin BadTriplets(rx[t])

\* the receive step of caller t that delivered a frame with a bad triplet
BadFrameReceived(t) ==
    pc[t] = "recv" /\ rx'[t] # <<>> /\ \E j \in 1..(Len(rx'[t]) \div 3) : BadAt(rx'[t], j)

\* triplet j is the first bad triplet of frame f
FirstBadAt(f, j) == BadAt(f, j) /\ \A k \in 1..(j - 1) : ~BadAt(f, k)

\* C7 as stated: a sps30_do_cmd that fails on a checksum leaves the
\* caller's buffer as it was.
C7_BufferUnchangedOnError ==
    [][\A t \in Callers : BadFrameReceived(t) => tmp'[t] = tmp[t]]_allvars

\* C7 amended: a sps30_do_cmd that fails on the checksum of triplet j has
\* written the words of the triplets before j to the start of the buffer
\* and left the rest of it as it was (all of it when j is the first).
C7_PrefixWrittenOnError ==
    [][\A t \in Callers : BadFrameReceived(t) =>
          \A j \in 1..(Len(rx'[t]) \div 3) : FirstBadAt(rx'[t], j) =>
              tmp'[t] = [i \in 1..Len(tmp[t]) |->
                            IF i <= 2 * (j - 1)
                            THEN rx'[t][i + (i - 1) \div 2]
                            ELSE tmp[t][i]]]_allvars

\* C7 witness: sps30_do_cmd failed on a triplet after the first of a
\* measurement frame, with words of that frame in the buffer.
C7_Witness ==
    \E t \in Callers :
        /\ MeasReturned(t)
        /\ Len(rx[t]) >= 12
        /\ BadTriplets(rx[t]) # {}
        /\ FirstBadAt(rx[t], 3)
        /\ SubSeq(tmp[t], 1, 4) = <<rx[t][1], rx[t][2], rx[t][4], rx[t][5]>>
        /\ tmp[t][5] = Uninit

\* C8: a transfer that returned an error or a short count is the last
\* transfer of its caller and the handler's ret is an error; a send that
\* moved all its bytes is followed by nothing but the receive of the same
\* command or, after a completed command, the next command's send.
C8_NoTransferRetried ==
    \A i \in 1..Len(trace) :
        LET e == trace[i]
            later == {k \in OwnIdx(e.caller) : k > i}
        IN  /\ e.res # e.len
                => /\ later = {}
                   /\ pc[e.caller] = "unlock"
                   /\ ret[e.caller] < 0
            /\ (e.op = "send" /\ e.res = e.len /\ IsReadCmd(e.cmd) /\ later # {})
                => /\ i + 1 \in later
                   /\ trace[i + 1].op = "recv"
                   /\ trace[i + 1].cmd = e.cmd
            /\ (e.op = "recv" /\ later # {})
                => /\ i + 1 \in later
                   /\ trace[i + 1].op = "send"

\* C8 witness: the call has failed on a send that moved one byte too few.
C8_Witness ==
    \E t \in Callers :
        /\ pc[t] = "unlock"
        /\ ret[t] = -EIO
        /\ \E i \in OwnIdx(t) :
              trace[i].op = "send" /\ trace[i].res = trace[i].len - 1

\* C9: when a transfer failed or a checksum did not match, sps30_do_meas
\* does not return -ETIMEDOUT.
C9_TimeoutOnlyForTimeout ==
    \A t \in Callers :
        ( /\ MeasReturned(t)
          /\ (~AllTransfersOk(t) \/ BadTriplets(rx[t]) # {}) )
        => ret[t] # -ETIMEDOUT

\* C10: for an input with sign bit 0 that encodes 3000.0 or more,
\* sps30_float_to_int_clamped returns 300000.
C10_ClampAtCeiling ==
    ( /\ fpDone
      /\ fpIn[1] < 128
      /\ \/ be32_exp(fpIn) > 138
         \/ be32_exp(fpIn) = 138 /\ be32_mantissa(fpIn) >= 3899392 )
    => fpOut = SPS30_MAX_PM * 100

\* C11: after a successful sps30_do_meas(state, data, n) the entries
\* data[0..n-1], and no others, are written and each lies in [0, 300000].
C11_ChannelsInRange ==
    \A t \in Callers :
        (MeasReturned(t) /\ ret[t] = 0)
            => \A i \in 1..Len(data[t]) :
                  IF i <= fn[t].size
                  THEN data[t][i] \in 0..(SPS30_MAX_PM * 100)
                  ELSE data[t][i] = Uninit

\* the input has sign bit 0 and is not all-zero
PositiveInput(fp) ==
    fp[1] < 128 /\ ~(be32_exp(fp) = 0 /\ be32_mantissa(fp) = 0)

\* C12: for a non-zero input with sign bit 0 and a negative unbiased
\* exponent, sps30_float_to_int_clamped returns an integer in [1, 99].
C12_SubUnitRange ==
    (fpDone /\ PositiveInput(fpIn) /\ be32_exp(fpIn) - 127 < 0)
        => fpOut \in 1..99

\* the input has sign bit 0 and encodes a value below 3000.0
BelowCeiling(fp) ==
    /\ fp[1] < 128
    /\ \/ be32_exp(fp) < 138
       \/ be32_exp(fp) = 138 /\ be32_mantissa(fp) < 3899392

\* floor(100 * v) of the value v an input below 3000.0 encodes: v is
\* (2^23 + mantissa) / 2^(150 - e) for an exponent field e > 0 and less
\* than 2^-126 for e = 0
Floor100(fp) ==
    LET k == 150 - be32_exp(fp)
    IN  IF be32_exp(fp) = 0 \/ k >= 31 THEN 0
        ELSE ((Pow2(23) + be32_mantissa(fp)) * 100) \div Pow2(k)

\* C19: for an input with sign bit 0 that encodes v < 3000,
\* sps30_float_to_int_clamped returns floor(100 * v); and over the inputs
\* with sign bit 0 an input with a lower bit pattern never gives a higher
\* result.
C19_FloorAndMonotonic ==
    (fpDone /\ fpIn[1] < 128)
        => /\ BelowCeiling(fpIn) => fpOut = Floor100(fpIn)
           /\ \A m \in Mantissas :
                 /\ m <= be32_mantissa(fpIn)
                      => sps30_float_to_int_clamped(
                             FloatBytes(0, be32_exp(fpIn), m), fpBuild) <= fpOut
                 /\ be32_exp(fpIn) > 0
                      => sps30_float_to_int_clamped(
                             FloatBytes(0, be32_exp(fpIn) - 1, m), fpBuild) <= fpOut

\* texts that denote the integer 1
TextsOfOne == { <<"1">>, <<"1", "\n">>, <<"+", "1">>, <<"0", "1">> }

\* the transfers of caller t on the bus, in order
OwnTrace(t) == SelectSeq(trace, LAMBDA e : e.caller = t)

\* C15: start_cleaning_store with a text that does not denote the integer 1
\* returns -EINVAL, never holds the lock and causes no transfer; with a
\* text that denotes 1 it sends START_FAN_CLEANING once, holding the lock,
\* and nothing else.
C15_CleaningInputValidated ==
    /\ \A buf \in CleaningTexts : CleaningRejected(buf) <=> buf \notin TextsOfOne
    /\ \A t \in Callers :
          fn[t].name = "start_cleaning_store"
              => IF fn[t].buf \in TextsOfOne
                 THEN /\ pc[t] \in {"lock", "send", "unlock"}
                      /\ pc[t] \in {"send", "unlock"} => lock = t
                      /\ pc[t] \in {"lock", "send"} => OwnIdx(t) = {}
                      /\ pc[t] = "send" => cmd[t] = SPS30_START_FAN_CLEANING
                      /\ pc[t] = "unlock"
                           => /\ Len(OwnTrace(t)) = 1
                              /\ OwnTrace(t)[1].op = "send"
                              /\ OwnTrace(t)[1].cmd = SPS30_START_FAN_CLEANING
                 ELSE /\ pc[t] = "einval"
                      /\ ret[t] = -EINVAL
                      /\ lock # t
                      /\ OwnIdx(t) = {}

\* C15 witness: one write was rejected while another, of a text denoting 1,
\* has sent its command and holds the lock.
C15_Witness ==
    \E t, u \in Callers :
        /\ pc[t] = "einval" /\ fn[t].buf = <<"0">>
        /\ pc[u] = "unlock" /\ fn[u].name = "start_cleaning_store"
        /\ ret[u] = 0 /\ Sends(u, SPS30_START_FAN_CLEANING) = 1

\* caller t is inside sps30_do_meas
InMeas(t) == IsMeas(fn[t]) /\ pc[t] \in {"while", "send", "recv", "sleep"}

\* what sps30_do_meas of caller t has done so far: transfers, sleeps and
\* evaluations of the loop condition
MeasProgress(t) == Cardinality(OwnIdx(t)) + sleeps[t] + (InitialTries - tries[t])

\* C18: a sps30_do_meas never sends more than 5 data-ready polls, never
\* sleeps more than 5 times and never sends more than one READ_DATA, and
\* every step it takes adds a transfer, a sleep or a loop test to what it
\* has done, so that it returns after a bounded number of steps whatever
\* the bus returns.
C18_BoundedPolling ==
    /\ [](\A t \in Callers :
            /\ Sends(t, SPS30_READ_DATA_READY_FLAG) <= 5
            /\ sleeps[t] <= 5
            /\ Sends(t, SPS30_READ_DATA) <= 1
            /\ Cardinality(OwnIdx(t)) <= 12)
    /\ [][\A t \in Callers :
            (InMeas(t) /\ pc'[t] # pc[t])
                => /\ pc'[t] \in {"while", "send", "recv", "sleep", "unlock"}
                   /\ pc'[t] # "unlock" => MeasProgress(t)' > MeasProgress(t)]_allvars

\* C18 witness: a sps30_do_meas has returned after 5 polls, 5 sleeps and a
\* READ_DATA.
C18_Witness ==
    \E t \in Callers :
        /\ MeasReturned(t)
        /\ Sends(t, SPS30_READ_DATA_READY_FLAG) = 5
        /\ sleeps[t] = 5
        /\ Sends(t, SPS30_READ_DATA) = 1

\* START_MEAS was sent and moved all its bytes
MeasStarted ==
    \E i \in 1..Len(devtrace) :
        devtrace[i].cmd = SPS30_START_MEAS /\ devtrace[i].res = devtrace[i].len

\* a STOP_MEAS was sent after the START_MEAS that moved all its bytes
StoppedAfterStart ==
    \E i, j \in 1..Len(devtrace) :
        /\ i < j
        /\ devtrace[i].cmd = SPS30_START_MEAS /\ devtrace[i].res = devtrace[i].len
        /\ devtrace[j].cmd = SPS30_STOP_MEAS /\ devtrace[j].op = "send"

\* the device is on a way out: a step of sps30_probe after START_MEAS
\* failed, or it was unbound
Leaving == dev \in {"unregister", "stop_meas", "gone"}

\* C13: once START_MEAS was sent successfully, a device that is on a way
\* out (a later step of sps30_probe failed, or it was unbound) ends up
\* released, with a STOP_MEAS sent after the START_MEAS, whatever that
\* STOP_MEAS returned; no device is released without it.
C13_StopMeasOnEveryExit ==
    /\ []((dev = "gone" /\ MeasStarted) => StoppedAfterStart)
    /\ (MeasStarted /\ Leaving) ~> (dev = "gone" /\ StoppedAfterStart)

\* C13 witness: a registered device was unbound, its STOP_MEAS failed on
\* the bus, and it is released.
C13_Witness ==
    /\ dev = "gone"
    /\ devret = 0
    /\ Len(devtrace) = 6
    /\ devtrace[6].cmd = SPS30_STOP_MEAS
    /\ devtrace[6].res < 0

\* the transfers of sps30_probe, in order
AttachOrder ==
    << [op |-> "send", cmd |-> SPS30_RESET],
       [op |-> "send", cmd |-> SPS30_STOP_MEAS],
       [op |-> "send", cmd |-> SPS30_READ_SERIAL],
       [op |-> "recv", cmd |-> SPS30_READ_SERIAL],
       [op |-> "send", cmd |-> SPS30_START_MEAS] >>

\* the transfers of sps30_probe whose failure it tests for
TestedTransfers == {1, 3, 4, 5}

\* C14: the transfers of sps30_probe are RESET, STOP_MEAS, READ_SERIAL
\* (send and receive) and START_MEAS in this order; the device is
\* registered, and its handlers run, only after all five and with all but
\* the STOP_MEAS successful; a failed RESET, READ_SERIAL or START_MEAS
\* (a failed transfer, or a bad checksum in the serial number) is the last
\* transfer and sps30_probe returns its error; after the STOP_MEAS,
\* whatever it returned, sps30_probe goes on to READ_SERIAL.
C14_AttachOrder ==
    /\ \A i \in 1..Len(devtrace) :
          i <= 5 => /\ devtrace[i].op = AttachOrder[i].op
                    /\ devtrace[i].cmd = AttachOrder[i].cmd
    /\ dev \in {"registered", "unregister"}
          => /\ Len(devtrace) = 5
             /\ \A i \in TestedTransfers : devtrace[i].res = devtrace[i].len
             /\ devbuf = SerialNumber
             /\ devret = 0
    /\ \A t \in Callers : pc[t] # "idle" => dev \in {"registered", "unregister"}
    /\ \A i \in TestedTransfers :
          (i <= Len(devtrace) /\ devtrace[i].res # devtrace[i].len)
              => (Len(devtrace) = i /\ dev = "gone" /\ devret < 0)
    /\ (Len(devtrace) >= 4 /\ devtrace[4].res = devtrace[4].len
            /\ devbuf # SerialNumber)
          => (Len(devtrace) = 4 /\ dev = "gone" /\ devret = -EIO)
    /\ Len(devtrace) = 2 => (dev = "serial" /\ devret = 0)

\* C14 witness: the device is registered and in use after a sps30_probe
\* whose STOP_MEAS failed.
C14_Witness ==
    /\ dev = "registered"
    /\ devtrace[2].res = -ENXIO
    /\ \E t \in Callers : pc[t] = "unlock" /\ ret[t] = 0

\* the steps of sps30_probe and sps30_stop_meas that make a transfer
DevBusSteps == {"reset", "nudge", "serial", "serial_recv", "start", "stop_meas"}

\* C16: whenever a transfer is made the context that makes it holds
\* state->lock: the callers of the handlers, and sps30_probe and
\* sps30_stop_meas (which run when no handler can, so that the lock can
\* have no other holder).
C16_LockHeldOnEveryCommand ==
    [][/\ \A t \in Callers :
             (pc[t] \in {"send", "recv"} /\ trace' # trace /\ pc'[t] # pc[t])
                 => lock = t
       /\ (dev \in DevBusSteps /\ devtrace' # devtrace) => lock # NoOne]_allvars

\* the bytes a command is sent as when it has no payload
Opcode(c) == <<c \div 256, c % 256>>

\* the number of payload bytes a read command is asked for
AskedFor(e) ==
    IF e.cmd = SPS30_READ_DATA_READY_FLAG THEN 2
    ELSE IF e.cmd = SPS30_READ_SERIAL THEN 32
    ELSE 4 * fn[e.caller].size

\* the transfers of record tr have the shape their commands fix
ShapedByCommand(tr) ==
    \A i \in 1..Len(tr) :
        LET e == tr[i] IN
        /\ e.op = "send"
              => /\ e.len = Len(e.tx)
                 /\ e.tx = IF e.cmd = SPS30_START_MEAS
                           THEN Opcode(e.cmd) \o <<3, 0, 172>>
                           ELSE Opcode(e.cmd)
        /\ e.op = "recv"
              => /\ IsReadCmd(e.cmd)
                 /\ e.len = AskedFor(e) + AskedFor(e) \div 2
                 /\ i > 1
                 /\ tr[i - 1].op = "send" /\ tr[i - 1].cmd = e.cmd
                 /\ tr[i - 1].caller = e.caller
                 /\ tr[i - 1].res = tr[i - 1].len
        /\ (e.op = "send" /\ ~IsReadCmd(e.cmd) /\ i < Len(tr))
              => tr[i + 1].op = "send"

\* the first n bytes of buffer b are the words of frame f, the rest of it
\* was never written
HoldsWords(b, f, n) ==
    \A i \in 1..Len(b) :
        IF i <= n THEN b[i] = f[i + (i - 1) \div 2] ELSE b[i] = Uninit

\* C20: STOP_MEAS, RESET and START_FAN_CLEANING are one send of the 2
\* opcode bytes and no receive; START_MEAS is one send of 5 bytes (opcode,
\* 0x03, 0x00, crc) and no receive; a read command asked for `size` bytes is
\* one send of the 2 opcode bytes followed by one receive of
\* size + size / 2 bytes and on success leaves exactly `size` bytes, the
\* words of the frame, in the output; a read of n channels receives 6n.
C20_TrafficFixedByCommand ==
    /\ crc8(3, 0) = 172
    /\ ShapedByCommand(devtrace)
    /\ ShapedByCommand(trace)
    /\ dev \in {"start", "add_action", "buffer_setup", "register"}
          => devbuf = SerialNumber
    /\ \A t \in Callers :
          /\ (IsMeas(fn[t]) /\ pc[t] = "sleep")
                => (Len(rx[t]) = 3 /\ HoldsWords(tmp[t], rx[t], 2))
          /\ (MeasReturned(t) /\ ret[t] = 0)
                => /\ Len(rx[t]) = 6 * fn[t].size
                   /\ HoldsWords(tmp[t], rx[t], 4 * fn[t].size)

\* C20 witness: on a registered device a read of 3 channels has returned 0.
C20_Witness ==
    /\ dev = "registered"
    /\ \E t \in Callers :
          /\ MeasReturned(t) /\ ret[t] = 0
          /\ fn[t].size = 3
          /\ Len(rx[t]) = 18

\* C17: a caller holds state->lock only between mutex_lock and
\* mutex_unlock of its handler, never when the handler has returned; a
\* holder releases the lock, on success and on every error; a caller
\* waiting for the lock gets it; and some caller inside a handler can
\* always take a step.
C17_LockReleasedAndAcquired ==
    /\ [](\A t \in Callers :
            lock = t <=> pc[t] \in {"while", "send", "recv", "sleep", "unlock"})
    /\ []((\E t \in Callers : pc[t] # "idle")
            => ENABLED (\E t \in Callers : Step(t)))
    /\ \A t \in Callers : (lock = t) ~> (lock # t)
    /\ \A t \in Callers : (pc[t] = "lock") ~> (lock = t)

\* C17 witness: a handler is about to release the lock after an error
\* while another caller waits for it.
C17_Witness ==
    \E t, u \in Callers :
        /\ t # u
        /\ lock = t /\ pc[t] = "unlock" /\ ret[t] < 0
        /\ pc[u] = "lock"

====
